---- MODULE Spec2Model ----
(***************************************************************************)
(* Dynamic Quote Generator v4: the quote store, its localStorage snapshot, *)
(* the category filter, JSON import and the server sync cycle.             *)
(*                                                                         *)
(* Strings are sequences of chunks; the chunk " " is one whitespace        *)
(* character and every other chunk is a run of non-whitespace characters.  *)
(* The empty string is << >>.                                              *)
(***************************************************************************)
EXTENDS Integers, Sequences, FiniteSets, TLC

\* ------------------------------------------------------------------ bounds
MaxLen == 2        \* the quotes array grows only up to this length
MaxInFlight == 2   \* most sync cycles pending at once
MaxTicks == 1      \* milliseconds the clock may advance
MaxRemote == 1     \* longest server response array enumerated

\* --------------------------------------------------------------- JS values
\* `undefined` read from a numeric field (item.id of a post without id)
NoId == 0
\* `undefined` read from a string field (item.title of a post without title)
Undef == <<"<undefined>">>
\* `null` returned by localStorage.getItem for a key never written
NoItem == <<"<null>">>
\* a `null` entry of an array
NullElem == [null |-> TRUE]
EmptyStr == << >>
All == <<"all">>
ServerSync == <<"ServerSync">>
\* first value Date.now() returns in a run (a millisecond timestamp)
T0 == 1000

Quote(i, t, c) == [id |-> i, text |-> t, category |-> c]

DefaultQuotes ==
  << Quote(1, <<"The best way to predict the future is to invent it.">>, <<"Inspiration">>),
     Quote(2, <<"Life is what happens when you're busy making other plans.">>, <<"Life">>),
     Quote(3, <<"JavaScript is the language of the web.">>, <<"Programming">>),
     Quote(4, <<"Simplicity is the soul of efficiency.">>, <<"Motivation">>) >>

\* String(v) as applied by option.value = cat
ToStr(v) == IF v = Undef THEN <<"undefined">> ELSE v

\* if (savedFilter): null and "" are falsy
Truthy(s) == s # NoItem /\ s # EmptyStr

RECURSIVE TrimStart(_)
TrimStart(s) == IF s # << >> /\ Head(s) = " " THEN TrimStart(Tail(s)) ELSE s

RECURSIVE TrimEnd(_)
TrimEnd(s) ==
  IF s # << >> /\ s[Len(s)] = " " THEN TrimEnd(SubSeq(s, 1, Len(s) - 1)) ELSE s

\* variant: the input is stored as typed
NoTrim(s) == s

\* String.prototype.trim
Trim(s) == TrimEnd(TrimStart(s))

Range(s) == { s[i] : i \in 1..Len(s) }

\* -------------------------------------------------------------------- JSON
\* A text handed to JSON.parse is [kind |-> "garbage"] (unparseable) or the
\* JSON value it denotes: [kind |-> "null"], [kind |-> "object"] (a value
\* that is not an array) or [kind |-> "array", items |-> ...], whose items
\* are null or objects holding only the fields that are present.
Garbage == [kind |-> "garbage"]
JsonNull == [kind |-> "null"]
JsonObject == [kind |-> "object"]
JsonArray(items) == [kind |-> "array", items |-> items]

FieldNames == {"id", "text", "category"}
IsUndefined(f, v) == IF f = "id" THEN v = NoId ELSE v = Undef
Missing(f) == IF f = "id" THEN NoId ELSE Undef

\* JSON.stringify of one array entry: undefined-valued properties are dropped
StringifyElem(q) ==
  IF q = NullElem THEN NullElem
  ELSE [f \in { g \in FieldNames : ~IsUndefined(g, q[g]) } |-> q[f]]

\* JSON.stringify(quotes)
JsonStringify(qs) == JsonArray([i \in 1..Len(qs) |-> StringifyElem(qs[i])])

\* reading property f of a parsed object: undefined when the key is absent
Field(e, f) == IF f \in DOMAIN e THEN e[f] ELSE Missing(f)

ParseElem(e) ==
  IF e = NullElem THEN NullElem
  ELSE Quote(Field(e, "id"), Field(e, "text"), Field(e, "category"))

\* JSON.parse throws a SyntaxError
ParseThrows(raw) == raw = Garbage

\* the array JSON.parse returns for an array text
ParseItems(raw) == [i \in 1..Len(raw.items) |-> ParseElem(raw.items[i])]

\* localStorage.getItem("quotes") handed to JSON.parse: a missing key is null
Absent == [kind |-> "absent"]
GetItemQuotes(stored) == IF stored = Absent THEN JsonNull ELSE stored

\* ----------------------------------------------------------------- outputs
Event(ch, msg, n) == [ch |-> ch, msg |-> msg, n |-> n]
Alert(msg) == Event("alert", msg, 0)
Notification(msg) == Event("notification", msg, 0)
ConsoleError(msg) == Event("console", msg, 0)
\* a.click() on a link with the download attribute: the browser saves text
Download(text) == Event("download", text, 0)
MsgEnterBoth == "Please enter both a quote and a category."
MsgAdded == "Quote added successfully!"
MsgImported == "Quotes imported successfully!"
MsgImportError == "Error importing quotes: "
MsgSynced == "Quotes synced with server successfully!"
MsgConflicts == " conflicts resolved. Server data took precedence."
MsgFetchError == "Error fetching server data:"
MsgUncaught == "Uncaught TypeError"
MsgSyntaxError == "Uncaught SyntaxError"
MsgNoQuotes == "No quotes found for this category."

VARIABLES
  quotes,            \* the quotes array
  lsQuotes,          \* localStorage "quotes"
  lsSelected,        \* localStorage "selectedCategory"
  options,           \* option values of the categoryFilter select
  filterValue,       \* categoryFilter.value
  emitted,           \* what the latest handler that reported anything reported
  pending,           \* sync cycles suspended at an await of fetchQuotesFromServer
  now,               \* Date.now()
  script,            \* "running", or "aborted" when the top-level script threw at load
  display,           \* what quoteDisplay shows
  lastServerData     \* the response the latest sync cycle received, "none" once another handler ran

vars == << quotes, lsQuotes, lsSelected, options, filterValue, display, emitted,
           pending, now, script, lastServerData >>

NoMerge == [kind |-> "none"]

\* ------------------------------------------------------------------ filter
HasNull(qs) == \E i \in 1..Len(qs) : qs[i] = NullElem

RECURSIVE Distinct(_, _)
\* [...new Set(values)]: first occurrences, in order
Distinct(s, seen) ==
  IF s = << >> THEN << >>
  ELSE IF Head(s) \in seen THEN Distinct(Tail(s), seen)
       ELSE <<Head(s)>> \o Distinct(Tail(s), seen \cup {Head(s)})

\* the select as the page's markup declares it, before any script ran
StaticOptions == <<All>>

\* populateCategories: quotes.map(q => q.category) throws on a null entry
PopulateThrows(qs) == HasNull(qs)

\* option values after populateCategories rebuilt the select
PopulateOptions(qs) ==
  LET cats == [i \in 1..Len(qs) |-> qs[i].category]
      uniq == Distinct(cats, {})
  IN <<All>> \o [i \in 1..Len(uniq) |-> ToStr(uniq[i])]

\* categoryFilter.value after populateCategories: the first option is selected
\* after the rebuild; assigning a value no option has leaves nothing selected
PopulateValue(qs, saved) ==
  IF Truthy(saved)
  THEN IF saved \in Range(PopulateOptions(qs)) THEN saved ELSE EmptyStr
  ELSE All

\* filterQuotes' result list
Query(qs, selectedCategory) ==
  IF selectedCategory = All THEN qs
  ELSE SelectSeq(qs, LAMBDA q : q.category = selectedCategory)

\* the paragraph filterQuotes appends for one record, line 87
RenderItem(q) == [text |-> ToStr(q.text), category |-> ToStr(q.category)]

\* quoteDisplay after filterQuotes rendered this result list: the message of
\* line 82 for an empty list, one paragraph per record otherwise
Rendered(filteredQuotes) ==
  [note |-> IF filteredQuotes = << >> THEN MsgNoQuotes ELSE "",
   items |-> [i \in 1..Len(filteredQuotes) |-> RenderItem(filteredQuotes[i])]]

\* quoteDisplay as the page's markup holds it before any script ran
InitialDisplay == [note |-> "", items |-> << >>]

\* quoteDisplay after filterQuotes ran to its end on a list without null entry
Display(qs, selectedCategory) == Rendered(Query(qs, selectedCategory))

\* the entries in front of the first null entry
RECURSIVE BeforeNull(_)
BeforeNull(qs) ==
  IF qs = << >> \/ Head(qs) = NullElem THEN << >>
  ELSE <<Head(qs)>> \o BeforeNull(Tail(qs))

\* filterQuotes called on its own. With a null entry in the list the callback
\* of quotes.filter throws before the display is touched (line 76); under
\* "all" the display is cleared and the forEach of line 85 renders up to the
\* null entry, where reading q.text throws.
FilterQuotes(qs, selectedCategory, shown) ==
  IF ~HasNull(qs)
  THEN [threw |-> FALSE, display |-> Display(qs, selectedCategory)]
  ELSE IF selectedCategory = All
  THEN [threw |-> TRUE,
        display |-> [note |-> "",
                     items |-> [i \in 1..Len(BeforeNull(qs)) |-> RenderItem(BeforeNull(qs)[i])]]]
  ELSE [threw |-> TRUE, display |-> shown]

\* populateCategories(); filterQuotes(); as the handlers call them in a row.
\* filterQuotes writes the select's value to localStorage before it renders.
Refresh(qs, saved, opts, value) ==
  IF PopulateThrows(qs)
  THEN [threw |-> TRUE, options |-> opts, value |-> value, selected |-> saved]
  ELSE [threw |-> FALSE, options |-> PopulateOptions(qs),
        value |-> PopulateValue(qs, saved), selected |-> PopulateValue(qs, saved)]

\* -------------------------------------------------------------- input sets
A == <<"A">>
A2 == <<"A2">>
B == <<"B">>
X == <<"X">>
Y == <<"Y">>

TextInputs == { <<" ">>, <<" ", "A", " ">> }
CategoryInputs == { << >>, <<"X", " ">> }
\* the options the user picks in the select
FilterInputs == { All, X }

StoredSnapshots ==
  { Absent, Garbage, JsonNull, JsonStringify(<<Quote(1, A, X)>>) }
StoredSelections == { NoItem }

ImportElems == { StringifyElem(Quote(1, EmptyStr, Y)), NullElem }
ImportPayloads ==
  { Garbage, JsonObject, JsonArray(<< >>) } \cup { JsonArray(<<e>>) : e \in ImportElems }

\* a post of the server response; an entry of the response may also be null
Post(i, t) == [id |-> i, title |-> t]
Posts == { Post(1, A2), Post(2, B) }
RECURSIVE SeqsUpTo(_, _)
SeqsUpTo(S, n) ==
  IF n = 0 THEN { << >> }
  ELSE LET shorter == SeqsUpTo(S, n - 1)
       IN shorter \cup { Append(s, e) : s \in { t \in shorter : Len(t) = n - 1 }, e \in S }
ServerData ==
  { JsonObject, JsonArray(<<Post(1, A2), NullElem>>), JsonArray(<<Post(1, A2), Post(2, B)>>) }
    \cup { JsonArray(s) : s \in SeqsUpTo(Posts, MaxRemote) }

\* -------------------------------------------------------------------- load
\* lines 6-11 and 250-251: the state a page load leaves behind
Load(stored, saved) ==
  IF ParseThrows(GetItemQuotes(stored))
  THEN [quotes |-> << >>, options |-> StaticOptions, value |-> All,
        selected |-> saved, script |-> "aborted", display |-> InitialDisplay,
        emitted |-> <<ConsoleError(MsgSyntaxError)>>]
  ELSE LET parsed == GetItemQuotes(stored)
           qs == IF parsed.kind = "array" THEN ParseItems(parsed) ELSE DefaultQuotes
           r == Refresh(qs, saved, StaticOptions, All)
       IN [quotes |-> qs, options |-> r.options, value |-> r.value,
           selected |-> r.selected, script |-> "running",
           display |-> IF r.threw THEN InitialDisplay ELSE Display(qs, r.value),
           emitted |-> IF r.threw THEN <<ConsoleError(MsgUncaught)>> ELSE << >>]

Init ==
  \E stored \in StoredSnapshots, saved \in StoredSelections :
    LET l == Load(stored, saved) IN
      /\ quotes = l.quotes
      /\ lsQuotes = stored
      /\ lsSelected = l.selected
      /\ options = l.options
      /\ filterValue = l.value
      /\ display = l.display
      /\ emitted = l.emitted
      /\ pending = 0
      /\ now = T0
      /\ script = l.script
      /\ lastServerData = NoMerge

\* ------------------------------------------------------------------ insert
\* variant: only the text is validated
RejectsTextOnly(text, category) == text = EmptyStr

\* the validation of addQuote, lines 123-126
Rejects(text, category) == text = EmptyStr \/ category = EmptyStr

\* variant: the new record is put in front (unshift)
AddQuotePrepends(rawText, rawCategory) ==
  /\ script = "running"
  /\ LET text == Trim(rawText)
         category == Trim(rawCategory)
     IN IF Rejects(text, category)
        THEN /\ emitted' = <<Alert(MsgEnterBoth)>>
             /\ UNCHANGED << quotes, lsQuotes, lsSelected, options, filterValue, display >>
        ELSE /\ Len(quotes) < MaxLen
             /\ quotes' = <<Quote(now, text, category)>> \o quotes
             /\ lsQuotes' = JsonStringify(quotes')
             /\ LET r == Refresh(quotes', lsSelected, options, filterValue)
                IN /\ options' = r.options
                   /\ filterValue' = r.value
                   /\ display' = IF r.threw THEN display ELSE Display(quotes', r.value)
                   /\ lsSelected' = r.selected
                   /\ emitted' = IF r.threw THEN <<ConsoleError(MsgUncaught)>>
                                 ELSE <<Notification(MsgAdded)>>
  /\ lastServerData' = NoMerge
  /\ UNCHANGED << pending, now, script >>

\* the click on the add button with newQuoteText.value = rawText and
\* newQuoteCategory.value = rawCategory
AddQuote(rawText, rawCategory) ==
  /\ script = "running"
  /\ LET text == Trim(rawText)
         category == Trim(rawCategory)
     IN IF Rejects(text, category)
        THEN /\ emitted' = <<Alert(MsgEnterBoth)>>
             /\ UNCHANGED << quotes, lsQuotes, lsSelected, options, filterValue, display >>
        ELSE /\ Len(quotes) < MaxLen
             /\ quotes' = Append(quotes, Quote(now, text, category))
             /\ lsQuotes' = JsonStringify(quotes')
             /\ LET r == Refresh(quotes', lsSelected, options, filterValue)
                IN /\ options' = r.options
                   /\ filterValue' = r.value
                   /\ display' = IF r.threw THEN display ELSE Display(quotes', r.value)
                   /\ lsSelected' = r.selected
                   /\ emitted' = IF r.threw THEN <<ConsoleError(MsgUncaught)>>
                                 ELSE <<Notification(MsgAdded)>>
  /\ lastServerData' = NoMerge
  /\ UNCHANGED << pending, now, script >>

\* time passes
Tick ==
  /\ now < T0 + MaxTicks
  /\ now' = now + 1
  /\ UNCHANGED << quotes, lsQuotes, lsSelected, options, filterValue, display, emitted,
                  pending, script, lastServerData >>

\* ------------------------------------------------------------------ filter
\* the user picks another option of the select: the change event runs filterQuotes
ChangeFilter(v) ==
  /\ script = "running"
  /\ v \in Range(options)
  /\ v # filterValue
  /\ filterValue' = v
  /\ lsSelected' = v
  /\ LET f == FilterQuotes(quotes, v, display)
     IN /\ display' = f.display
        /\ emitted' = IF f.threw THEN <<ConsoleError(MsgUncaught)>> ELSE emitted
  /\ lastServerData' = NoMerge
  /\ UNCHANGED << quotes, lsQuotes, options, pending, now, script >>

\* ------------------------------------------------------------------ import
\* Array.isArray(importedQuotes) fails, line 165
NotAnArray(raw) == raw.kind # "array"

\* variant: saveQuotes runs whatever the file held
ImportFromJsonFileSavesAnyway(raw) ==
  /\ script = "running"
  /\ IF ParseThrows(raw) \/ NotAnArray(raw)
     THEN /\ emitted' = <<Alert(MsgImportError)>>
          /\ lsQuotes' = JsonStringify(quotes)
          /\ UNCHANGED << quotes, lsSelected, options, filterValue, display >>
     ELSE /\ raw.items = << >> \/ Len(quotes) + Len(raw.items) <= MaxLen
          /\ quotes' = quotes \o ParseItems(raw)
          /\ lsQuotes' = JsonStringify(quotes')
          /\ LET r == Refresh(quotes', lsSelected, options, filterValue)
             IN /\ options' = r.options
                /\ filterValue' = r.value
                /\ display' = IF r.threw THEN display ELSE Display(quotes', r.value)
                /\ lsSelected' = r.selected
                /\ emitted' = IF r.threw THEN <<Alert(MsgImportError)>>
                              ELSE <<Notification(MsgImported)>>
  /\ lastServerData' = NoMerge
  /\ UNCHANGED << pending, now, script >>

\* the change event of the file input: importFromJsonFile reads the chosen
\* file, and fileReader.onload runs with the file's text
ImportFromJsonFile(raw) ==
  /\ script = "running"
  /\ IF ParseThrows(raw) \/ NotAnArray(raw)
     THEN /\ emitted' = <<Alert(MsgImportError)>>
          /\ UNCHANGED << quotes, lsQuotes, lsSelected, options, filterValue, display >>
     ELSE /\ raw.items = << >> \/ Len(quotes) + Len(raw.items) <= MaxLen
          /\ quotes' = quotes \o ParseItems(raw)
          /\ lsQuotes' = JsonStringify(quotes')
          /\ LET r == Refresh(quotes', lsSelected, options, filterValue)
             IN /\ options' = r.options
                /\ filterValue' = r.value
                /\ display' = IF r.threw THEN display ELSE Display(quotes', r.value)
                /\ lsSelected' = r.selected
                /\ emitted' = IF r.threw THEN <<Alert(MsgImportError)>>
                              ELSE <<Notification(MsgImported)>>
  /\ lastServerData' = NoMerge
  /\ UNCHANGED << pending, now, script >>

\* ------------------------------------------------------------------ export
\* variant: the ids are left out of the exported file
ExportTextWithoutIds(qs) ==
  JsonArray([i \in 1..Len(qs) |->
    IF qs[i] = NullElem THEN NullElem
    ELSE [f \in { g \in FieldNames \ {"id"} : ~IsUndefined(g, qs[i][g]) } |-> qs[i][f]]])

\* JSON.stringify(quotes, null, 2): the indentation is not part of the value
\* the text denotes
ExportText(qs) == JsonStringify(qs)

\* the click on the export button
ExportToJsonFile ==
  /\ script = "running"
  /\ emitted' = <<Download(ExportText(quotes))>>
  /\ lastServerData' = NoMerge
  /\ UNCHANGED << quotes, lsQuotes, lsSelected, options, filterValue, display,
                  pending, now, script >>

\* the files the user can hand to the file input besides ImportPayloads: the
\* one the browser has just saved
Downloaded ==
  IF emitted # << >> /\ emitted[1].ch = "download" THEN {emitted[1].msg} ELSE {}

\* the user hands the file just saved to the file input
ImportExported == \E raw \in Downloaded : ImportFromJsonFile(raw)

\* -------------------------------------------------------------------- sync
\* variant: no match gives the last index
RECURSIVE FindIndexOrLast(_, _, _)
FindIndexOrLast(qs, id, i) ==
  IF i > Len(qs) THEN [threw |-> FALSE, index |-> Len(qs)]
  ELSE IF qs[i] = NullElem THEN [threw |-> TRUE, index |-> 0]
  ELSE IF qs[i].id = id THEN [threw |-> FALSE, index |-> i]
  ELSE FindIndexOrLast(qs, id, i + 1)

\* quotes.findIndex(q => q.id === id): the 1-based index of the first match,
\* 0 for -1; reading .id of a null entry throws a TypeError
RECURSIVE FindIndex(_, _, _)
FindIndex(qs, id, i) ==
  IF i > Len(qs) THEN [threw |-> FALSE, index |-> 0]
  ELSE IF qs[i] = NullElem THEN [threw |-> TRUE, index |-> 0]
  ELSE IF qs[i].id = id THEN [threw |-> FALSE, index |-> i]
  ELSE FindIndex(qs, id, i + 1)

\* the forEach of resolveConflicts from serverQuotes[k] on
\* variant: a record found locally is kept (local wins)
RECURSIVE ResolveLoopLocalWins(_, _, _, _)
ResolveLoopLocalWins(qs, serverQuotes, k, conflictsResolved) ==
  IF k > Len(serverQuotes)
  THEN [quotes |-> qs, conflictsResolved |-> conflictsResolved, threw |-> FALSE]
  ELSE LET localIndex == FindIndex(qs, serverQuotes[k].id, 1)
       IN IF localIndex.threw
          THEN [quotes |-> qs, conflictsResolved |-> conflictsResolved, threw |-> TRUE]
          ELSE IF localIndex.index = 0
          THEN ResolveLoopLocalWins(Append(qs, serverQuotes[k]), serverQuotes, k + 1,
                                    conflictsResolved)
          ELSE ResolveLoopLocalWins(qs, serverQuotes, k + 1, conflictsResolved + 1)

RECURSIVE ResolveLoop(_, _, _, _)
ResolveLoop(qs, serverQuotes, k, conflictsResolved) ==
  IF k > Len(serverQuotes)
  THEN [quotes |-> qs, conflictsResolved |-> conflictsResolved, threw |-> FALSE]
  ELSE LET localIndex == FindIndex(qs, serverQuotes[k].id, 1)
       IN IF localIndex.threw
          THEN [quotes |-> qs, conflictsResolved |-> conflictsResolved, threw |-> TRUE]
          ELSE IF localIndex.index = 0
          THEN ResolveLoop(Append(qs, serverQuotes[k]), serverQuotes, k + 1,
                           conflictsResolved)
          ELSE ResolveLoop([qs EXCEPT ![localIndex.index] = serverQuotes[k]],
                           serverQuotes, k + 1, conflictsResolved + 1)

\* variant: the server's list replaces the local one
ResolveConflictsMirror(qs, serverQuotes) ==
  [quotes |-> serverQuotes, conflictsResolved |-> 0, threw |-> FALSE]

ResolveConflicts(qs, serverQuotes) == ResolveLoop(qs, serverQuotes, 1, 0)

\* serverData.map(...) throws: serverData is no array, or an entry is null
MapThrows(serverData) ==
  \/ serverData.kind # "array"
  \/ \E i \in 1..Len(serverData.items) : serverData.items[i] = NullElem

\* lines 190-194: posts converted to quote-like objects
ServerQuotes(serverData) ==
  [i \in 1..Len(serverData.items) |->
     Quote(serverData.items[i].id, serverData.items[i].title, ServerSync)]

\* lines 218-222
SyncNotification(conflictsResolved) ==
  IF conflictsResolved > 0
  THEN Event("notification", MsgConflicts, conflictsResolved)
  ELSE Notification(MsgSynced)

\* the sync button's click or the 60 s interval: syncWithServer calls
\* fetchQuotesFromServer, which runs up to its first await. A cycle stays
\* pending over both awaits (fetch, then response.json()).
SyncWithServer ==
  /\ script = "running"
  /\ pending < MaxInFlight
  /\ pending' = pending + 1
  /\ UNCHANGED << quotes, lsQuotes, lsSelected, options, filterValue, display, emitted, now,
                  script, lastServerData >>

\* variant: the catch starts the fetch again
FetchRejectedRetries ==
  /\ pending > 0
  /\ pending' = pending
  /\ emitted' = <<ConsoleError(MsgFetchError)>>
  /\ lastServerData' = NoMerge
  /\ UNCHANGED << quotes, lsQuotes, lsSelected, options, filterValue, display, now, script >>

\* fetch or response.json() rejected (network failure, a body that is no
\* JSON): the catch logs
FetchRejected ==
  /\ pending > 0
  /\ pending' = pending - 1
  /\ emitted' = <<ConsoleError(MsgFetchError)>>
  /\ lastServerData' = NoMerge
  /\ UNCHANGED << quotes, lsQuotes, lsSelected, options, filterValue, display, now, script >>

\* variant: the store is saved after each remote record
JsonResolvedSavesEach(serverData) ==
  /\ pending > 0
  /\ pending' = pending - 1
  /\ lastServerData' = serverData
  /\ IF MapThrows(serverData)
     THEN /\ emitted' = <<ConsoleError(MsgFetchError)>>
          /\ UNCHANGED << quotes, lsQuotes, lsSelected, options, filterValue, display >>
     ELSE LET m == ResolveConflicts(quotes, ServerQuotes(serverData))
          IN /\ Len(m.quotes) = Len(quotes) \/ Len(m.quotes) <= MaxLen
             /\ quotes' = m.quotes
             /\ lsQuotes' = JsonStringify(m.quotes)
             /\ IF m.threw
                THEN /\ emitted' = <<ConsoleError(MsgFetchError)>>
                     /\ UNCHANGED << lsSelected, options, filterValue, display >>
                ELSE LET r == Refresh(m.quotes, lsSelected, options, filterValue)
                     IN /\ options' = r.options
                        /\ filterValue' = r.value
                        /\ display' = IF r.threw THEN display ELSE Display(quotes', r.value)
                        /\ lsSelected' = r.selected
                        /\ emitted' =
                             IF r.threw
                             THEN << SyncNotification(m.conflictsResolved),
                                     ConsoleError(MsgFetchError) >>
                             ELSE << SyncNotification(m.conflictsResolved) >>
  /\ UNCHANGED << now, script >>

\* response.json() resolved with serverData: map, then resolveConflicts,
\* everything inside the try of fetchQuotesFromServer
JsonResolved(serverData) ==
  /\ pending > 0
  /\ pending' = pending - 1
  /\ lastServerData' = serverData
  /\ IF MapThrows(serverData)
     THEN /\ emitted' = <<ConsoleError(MsgFetchError)>>
          /\ UNCHANGED << quotes, lsQuotes, lsSelected, options, filterValue, display >>
     ELSE LET m == ResolveConflicts(quotes, ServerQuotes(serverData))
          IN /\ Len(m.quotes) = Len(quotes) \/ Len(m.quotes) <= MaxLen
             /\ quotes' = m.quotes
             /\ IF m.threw
                THEN /\ emitted' = <<ConsoleError(MsgFetchError)>>
                     /\ UNCHANGED << lsQuotes, lsSelected, options, filterValue, display >>
                ELSE LET r == Refresh(m.quotes, lsSelected, options, filterValue)
                     IN /\ lsQuotes' = JsonStringify(m.quotes)
                        /\ options' = r.options
                        /\ filterValue' = r.value
                        /\ display' = IF r.threw THEN display ELSE Display(quotes', r.value)
                        /\ lsSelected' = r.selected
                        /\ emitted' =
                             IF r.threw
                             THEN << SyncNotification(m.conflictsResolved),
                                     ConsoleError(MsgFetchError) >>
                             ELSE << SyncNotification(m.conflictsResolved) >>
  /\ UNCHANGED << now, script >>

\* ------------------------------------------------------------------ reload
\* the page is loaded again: memory is rebuilt from localStorage, pending
\* callbacks of the old page are gone
Reload ==
  LET l == Load(lsQuotes, lsSelected) IN
    /\ quotes' = l.quotes
    /\ lsSelected' = l.selected
    /\ options' = l.options
    /\ filterValue' = l.value
    /\ display' = l.display
    /\ emitted' = l.emitted
    /\ pending' = 0
    /\ script' = l.script
    /\ lastServerData' = NoMerge
    /\ UNCHANGED << lsQuotes, now >>

Next ==
  \/ \E t \in TextInputs, c \in CategoryInputs : AddQuote(t, c)
  \/ \E v \in FilterInputs : ChangeFilter(v)
  \/ \E raw \in ImportPayloads : ImportFromJsonFile(raw)
  \/ ImportExported
  \/ ExportToJsonFile
  \/ SyncWithServer
  \/ FetchRejected
  \/ \E serverData \in ServerData : JsonResolved(serverData)
  \/ Tick
  \/ Reload

Spec == Init /\ [][Next]_vars

\* a pending cycle resumes: its fetch or its response.json() settles
Complete == FetchRejected \/ \E serverData \in ServerData : JsonResolved(serverData)

\* every fetch settles in the end, by a response or by a rejection
FairSpec == Spec /\ WF_vars(Complete)

\* ====================================================================== claims
\* this step is the cycle's continuation with the response serverData
Received(serverData) == lastServerData' = serverData /\ JsonResolved(serverData)

\* the events are those of a merge that ran up to its notification
IsSyncReport(events) ==
  events # << >> /\ events[1].ch = "notification" /\ events[1].msg \in {MsgSynced, MsgConflicts}

\* a merge of serverData ran to its end in this step
Merged(serverData) == Received(serverData) /\ IsSyncReport(emitted')

\* ids of the records a server response delivers
RemoteIds(serverData) ==
  IF serverData.kind # "array" THEN {}
  ELSE { serverData.items[i].id :
           i \in { j \in 1..Len(serverData.items) : serverData.items[j] # NullElem } }

IsRecord(q) == q # NullElem

\* C1: a merge keeps every local record whose id the remote set does not
\* contain: the same record is at the same place after the merge.
C1_LocalOnlyKept ==
  [][\A d \in ServerData :
       Received(d) =>
         \A i \in 1..Len(quotes) :
           (IsRecord(quotes[i]) /\ quotes[i].id \notin RemoteIds(d)) =>
             (i <= Len(quotes') /\ quotes'[i] = quotes[i])]_vars

\* a merge has run and the store holds a record the remote set did not name
C1_Witness ==
  /\ IsSyncReport(emitted)
  /\ lastServerData # NoMerge
  /\ lastServerData.items # << >>
  /\ \E i \in 1..Len(quotes) :
       IsRecord(quotes[i]) /\ quotes[i].id \notin RemoteIds(lastServerData)

\* ---- C2
\* index of the first local record with this id, 0 if there is none
RECURSIVE FirstWithId(_, _, _)
FirstWithId(qs, id, i) ==
  IF i > Len(qs) THEN 0
  ELSE IF IsRecord(qs[i]) /\ qs[i].id = id THEN i
  ELSE FirstWithId(qs, id, i + 1)

\* the lookup of this id meets a null entry before any record with the id
MeetsNull(qs, id) ==
  \E i \in 1..Len(qs) :
    /\ qs[i] = NullElem
    /\ \A j \in 1..(i - 1) : IsRecord(qs[j]) => qs[j].id # id

\* how many remote records the merge processes before it is cut short
Processed(qs, sq) ==
  LET cut == { k \in 1..Len(sq) : MeetsNull(qs, sq[k].id) }
  IN IF cut = {} THEN Len(sq)
     ELSE (CHOOSE k \in cut : \A l \in cut : k <= l) - 1

\* the last processed remote record with this id
LastProcessed(sq, n, id) ==
  sq[CHOOSE k \in 1..n : sq[k].id = id /\ \A l \in (k + 1)..n : sq[l].id # id]

\* C2: every remote record a merge processes ends up in the store: at the
\* place of the local record with its id when there is one (remote wins),
\* behind the old end of the list otherwise; local [{1,A,X}] merged with
\* remote [{1,A2},{2,B}] gives exactly 2 records and id 1 has text A2.
C2_RemoteWins ==
  [][\A d \in ServerData :
       (d.kind = "array" /\ NullElem \notin Range(d.items) /\ Received(d)) =>
         LET sq == [i \in 1..Len(d.items) |->
                      Quote(d.items[i].id, d.items[i].title, ServerSync)]
             n == Processed(quotes, sq)
             newIds == { sq[k].id : k \in { l \in 1..n : FirstWithId(quotes, sq[l].id, 1) = 0 } }
         IN /\ Len(quotes') = Len(quotes) + Cardinality(newIds)
            /\ \A k \in 1..n :
                 LET at == FirstWithId(quotes, sq[k].id, 1)
                     last == LastProcessed(sq, n, sq[k].id)
                 IN IF at # 0 THEN quotes'[at] = last
                    ELSE \E j \in (Len(quotes) + 1)..Len(quotes') : quotes'[j] = last
            /\ (quotes = <<Quote(1, A, X)>> /\ d = JsonArray(<<Post(1, A2), Post(2, B)>>)) =>
                 (Len(quotes') = 2 /\ quotes'[1].id = 1 /\ quotes'[1].text = A2)]_vars

\* the store after local [{1,A,X}] was merged with remote [{1,A2},{2,B}]
C2_Witness ==
  /\ lastServerData = JsonArray(<<Post(1, A2), Post(2, B)>>)
  /\ Len(quotes) = 2
  /\ quotes[1] = Quote(1, A2, ServerSync)
  /\ quotes[2] = Quote(2, B, ServerSync)
  /\ lsQuotes = JsonStringify(quotes)

\* ---- C3
\* the conflict count the latest notification reported (0 for a clean sync)
ReportedConflicts(events) == events[1].n

\* conflicts as the claim counts them: remote records whose id matches a
\* local record that differs in some field
RECURSIVE DifferingMatches(_, _, _)
DifferingMatches(qs, sq, k) ==
  IF k > Len(sq) THEN 0
  ELSE LET at == FirstWithId(qs, sq[k].id, 1)
       IN IF at = 0 THEN DifferingMatches(Append(qs, sq[k]), sq, k + 1)
          ELSE IF qs[at] = sq[k] THEN DifferingMatches(qs, sq, k + 1)
          ELSE 1 + DifferingMatches([qs EXCEPT ![at] = sq[k]], sq, k + 1)

\* C3: the summary of a merge reports as conflictsResolved the number of
\* remote records whose id matched a local record differing in at least one
\* field; records with an unseen id are new records, not conflicts.
C3_ConflictCount ==
  [][\A d \in ServerData :
       Merged(d) =>
         ReportedConflicts(emitted') = DifferingMatches(quotes, ServerQuotes(d), 1)]_vars

\* ---- C4
\* C4: a merge re-applied with the same remote set, nothing else having run
\* in between, reports conflictsResolved = 0 and leaves the store as it is.
C4_Idempotent ==
  [][\A d \in ServerData :
       (lastServerData = d /\ IsSyncReport(emitted) /\ Merged(d)) =>
         (ReportedConflicts(emitted') = 0 /\ quotes' = quotes)]_vars

\* ---- C5
\* C5: at most one sync cycle is in flight at any time.
C5_OneCycleInFlight == pending <= 1

\* ---- C6
\* a server response that is no sequence of records
Malformed(serverData) ==
  serverData.kind # "array" \/ NullElem \in Range(serverData.items)

C7_SnapshotFollowsMemory ==
  [][(/\ quotes' # quotes
      /\ \/ \E t \in TextInputs, c \in CategoryInputs : AddQuote(t, c)
         \/ \E raw \in ImportPayloads \cup Downloaded : ImportFromJsonFile(raw)
         \/ \E d \in ServerData : Received(d)) =>
       lsQuotes' = JsonStringify(quotes')]_vars

\* ---- C8
Spaces(n) == [i \in 1..n |-> " "]

\* t is raw without its leading and trailing whitespace
IsTrimOf(t, raw) ==
  /\ \E i \in 0..Len(raw), j \in 0..Len(raw) : raw = Spaces(i) \o t \o Spaces(j)
  /\ t # << >> => (t[1] # " " /\ t[Len(t)] # " ")

\* the raw input is not empty after trimming
NonBlank(raw) == \E i \in 1..Len(raw) : raw[i] # " "

\* C8: an insert whose text and category are both non-empty after trimming
\* makes the array one longer, keeps what was there, puts the record with
\* the trimmed text and category at the end, and query("all") returns it.
C8_InsertAppends ==
  [][\A t \in TextInputs, c \in CategoryInputs :
       (AddQuote(t, c) /\ NonBlank(t) /\ NonBlank(c)) =>
         /\ Len(quotes') = Len(quotes) + 1
         /\ SubSeq(quotes', 1, Len(quotes)) = quotes
         /\ IsTrimOf(quotes'[Len(quotes')].text, t)
         /\ IsTrimOf(quotes'[Len(quotes')].category, c)
         /\ quotes'[Len(quotes')] \in Range(Query(quotes', All))]_vars

\* an insert has just put its record at the end of the array
C8_Witness ==
  /\ emitted = <<Notification(MsgAdded)>>
  /\ Len(quotes) > 1
  /\ quotes[Len(quotes)] = Quote(now, A, X)

\* ---- C9
\* C9: an insert whose text or category is empty after trimming changes
\* neither the array nor the stored snapshot and alerts the user.
C9_InsertRejected ==
  [][\A t \in TextInputs, c \in CategoryInputs :
       (AddQuote(t, c) /\ ~(NonBlank(t) /\ NonBlank(c))) =>
         /\ quotes' = quotes
         /\ lsQuotes' = lsQuotes
         /\ emitted' = <<Alert(MsgEnterBoth)>>]_vars

\* an insert has just been rejected
C9_Witness ==
  /\ emitted = <<Alert(MsgEnterBoth)>>
  /\ quotes # << >>

\* ---- C10
\* C10: no two records of the store have the same id.
C10_UniqueIds ==
  \A i, j \in 1..Len(quotes) :
    (i # j /\ IsRecord(quotes[i]) /\ IsRecord(quotes[j])) => quotes[i].id # quotes[j].id

\* C11: loading never fails. While localStorage holds no snapshot, an
\* unparseable one, or one that is not an array, the page that loaded from it
\* runs and its store is the four default records.
Unusable(stored) ==
  stored = Absent \/ ParseThrows(stored) \/ stored.kind # "array"

C11_LoadNeverFails ==
  Unusable(lsQuotes) => (script = "running" /\ quotes = DefaultQuotes)

\* C12: an import whose file does not parse, or parses to something that is
\* not an array, is answered with the import error and changes neither the
\* store nor the snapshot.
BadPayload(raw) == ParseThrows(raw) \/ raw.kind # "array"

C12_BadImportRejected ==
  [][\A raw \in ImportPayloads :
       (BadPayload(raw) /\ ImportFromJsonFile(raw)) =>
         /\ emitted' = <<Alert(MsgImportError)>>
         /\ quotes' = quotes
         /\ lsQuotes' = lsQuotes]_vars

\* a bad file was refused by a page whose store differs from the defaults
C12_Witness ==
  /\ emitted = <<Alert(MsgImportError)>>
  /\ ~HasNull(quotes)
  /\ quotes # DefaultQuotes
  /\ lsQuotes = JsonStringify(quotes)

IsInserted(q) == IsRecord(q) /\ q.id >= T0
InSnapshot(q, stored) ==
  stored.kind = "array" /\ StringifyElem(q) \in Range(stored.items)
InsertedKept(ids) ==
  \A i \in 1..Len(quotes) :
    (IsInserted(quotes[i]) /\ quotes[i].id \notin ids) =>
      /\ i <= Len(quotes')
      /\ quotes'[i] = quotes[i]
      /\ InSnapshot(quotes[i], lsQuotes')

C14_InsertSurvivesCycle ==
  [][/\ \A d \in ServerData : Received(d) => InsertedKept(RemoteIds(d))
     /\ FetchRejected => InsertedKept({})]_vars

\* a cycle merged a response into a store that holds an inserted record
C14_Witness ==
  /\ IsSyncReport(emitted)
  /\ lastServerData.items # << >>
  /\ \E i \in 1..Len(quotes) :
       IsInserted(quotes[i]) /\ InSnapshot(quotes[i], lsQuotes)

\* C15: every record of the store has a text and a category that are strings
\* and are not empty.
NonEmptyString(v) == v # EmptyStr /\ v # Undef

C15_NonEmptyFields ==
  \A i \in 1..Len(quotes) :
    /\ IsRecord(quotes[i])
    /\ NonEmptyString(quotes[i].text)
    /\ NonEmptyString(quotes[i].category)

\* C16: the filter survives a restart. Once the user has picked v, the page
\* that loads from what localStorage then holds shows v as its filter; and a
\* page that finds no persisted preference shows "all".
C16_FilterSurvivesRestart ==
  [][/\ \A v \in FilterInputs :
          ChangeFilter(v) => Load(lsQuotes', lsSelected').value = v
     /\ Reload => (lsSelected = NoItem => filterValue' = All)]_vars

\* C17: the engine is Idle while no cycle is pending and Fetching while one
\* is. Every trigger takes it from Idle to Fetching, every cycle's end (merge
\* or failure) takes it from Fetching back to Idle, and, fetches settling in
\* the end, an engine that is Fetching is Idle again later.
Idle == pending = 0
Fetching == pending = 1

C17_CycleReturnsToIdle ==
  /\ [][/\ SyncWithServer => (Idle /\ Fetching')
        /\ Complete => (Fetching /\ Idle')]_vars
  /\ (~Idle ~> Idle)

\* C18: a merge writes the snapshot once, at its end. A cycle that processed
\* every remote record leaves as snapshot the serialization of the store that
\* holds them all; a cycle that did not (bad response, or a merge cut short)
\* leaves the snapshot as it was, so no partly merged list is ever written.
HoldsAll(qs, sq) ==
  \A k \in 1..Len(sq) : \E i \in 1..Len(qs) : IsRecord(qs[i]) /\ qs[i].id = sq[k].id

C18_SnapshotWrittenAtEnd ==
  [][\A d \in ServerData :
       Received(d) =>
         IF ~Malformed(d) /\ Processed(quotes, ServerQuotes(d)) = Len(d.items)
         THEN /\ HoldsAll(quotes', ServerQuotes(d))
              /\ lsQuotes' = JsonStringify(quotes')
         ELSE lsQuotes' = lsQuotes]_vars

\* a response of two records was merged into the default store and saved
C18_Witness ==
  /\ IsSyncReport(emitted)
  /\ lastServerData = JsonArray(<<Post(1, A2), Post(2, B)>>)
  /\ Len(quotes) = 4
  /\ quotes[2] = Quote(2, B, ServerSync)
  /\ quotes[3] = DefaultQuotes[3]
  /\ lsQuotes = JsonStringify(quotes)

\* C19: ids of different sources do not collide. No record of the default
\* set and no record created by addQuote has an id that a response of the
\* remote source holds, so no cycle finds such a record under a remote id.
IsDefault(q) == \E i \in 1..Len(DefaultQuotes) : q = DefaultQuotes[i]

C19_SourcesDisjoint ==
  [][\A d \in ServerData :
       Received(d) =>
         \A i \in 1..Len(quotes) :
           (IsDefault(quotes[i]) \/ IsInserted(quotes[i])) =>
             quotes[i].id \notin RemoteIds(d)]_vars

\* C20: only the user's choice in the select changes the filter. An insert,
\* an import, a cycle's merge and a failed cycle leave the select's value and
\* the persisted selectedCategory as they were, also when a merge overwrites
\* the last record of the selected category.
OtherHandler ==
  \/ \E t \in TextInputs, c \in CategoryInputs : AddQuote(t, c)
  \/ \E raw \in ImportPayloads \cup Downloaded : ImportFromJsonFile(raw)
  \/ Complete

C20_FilterOnlyBySetFilter ==
  [][OtherHandler => (filterValue' = filterValue /\ lsSelected' = lsSelected)]_vars

\* C21: the query and the export only read. Picking any filter value leaves
\* the store and the snapshot as they are, reports no error, and shows the
\* records of that category in store order (all records under "all"); when a
\* cycle leaves the filter at a category that no record has, the query shows
\* the empty list with its message; an export leaves store and snapshot alone.
RECURSIVE Matching(_, _)
Matching(qs, v) ==
  IF qs = << >> THEN << >>
  ELSE IF v = All \/ (IsRecord(Head(qs)) /\ Head(qs).category = v)
  THEN <<Head(qs)>> \o Matching(Tail(qs), v)
  ELSE Matching(Tail(qs), v)

Shows(shown, list) ==
  /\ Len(shown.items) = Len(list)
  /\ \A i \in 1..Len(list) :
       /\ IsRecord(list[i])
       /\ shown.items[i].text = ToStr(list[i].text)
       /\ shown.items[i].category = ToStr(list[i].category)
  /\ (list = << >>) = (shown.note = MsgNoQuotes)

C21_QueryExportPureReads ==
  [][/\ \A v \in FilterInputs :
          ChangeFilter(v) =>
            /\ quotes' = quotes
            /\ lsQuotes' = lsQuotes
            /\ emitted' = emitted
            /\ Shows(display', Matching(quotes, v))
     /\ (Complete /\ IsSyncReport(emitted') /\ Len(emitted') = 1) =>
          Shows(display', Matching(quotes', filterValue'))
     /\ ExportToJsonFile => (quotes' = quotes /\ lsQuotes' = lsQuotes)]_vars

\* C22: positions are stable. Over every insert, import, merge and failed
\* cycle the ids of the store before the step are a prefix of the ids after
\* it: entries are appended or overwritten in place under the same id, none
\* is removed and none moves.
NoRecord == 0 - 1
IdAt(qs, i) == IF IsRecord(qs[i]) THEN qs[i].id ELSE NoRecord

IdsArePrefix(before, after) ==
  /\ Len(before) <= Len(after)
  /\ \A i \in 1..Len(before) : IdAt(after, i) = IdAt(before, i)

C22_PositionsStable ==
  [][OtherHandler => IdsArePrefix(quotes, quotes')]_vars

\* a merge overwrote the first record in place, in front of an inserted one
C22_Witness ==
  /\ IsSyncReport(emitted)
  /\ Len(quotes) = 2
  /\ quotes[1] = Quote(1, A2, ServerSync)
  /\ IsInserted(quotes[2])
  /\ quotes[2].category = X

====
